---- MODULE Spec2Model ----
(***************************************************************************)
(* Viewport state and interaction controller of the hand-written slippy    *)
(* maps of london-bus-time-checker: LiveBusMap (live-bus-map.tsx),         *)
(* InteractiveMap (interactive-map.tsx) and BusMap (the third variant).    *)
(*                                                                         *)
(* Numbers.  Angles are integers in units of 2^-22 degree, so that one     *)
(* screen pixel at zoom z (360 / (256 * 2^z) degrees) is 45 * 2^(17-z)     *)
(* units and the pan arithmetic of handleMouseUp is exact for even pixel   *)
(* offsets.  Math.cos is a fixed-point rational approximation (Cos256),    *)
(* the Mercator ordinate a piecewise-linear table (MercFwd / MercInv).     *)
(* Every React handler is one atomic action on the committed state; the    *)
(* auto-centre effect runs in the same step as the prop change that        *)
(* triggers it.  mapRef.current is non-null once mounted, so the           *)
(* `if (mapRef.current)` branches are always taken.                        *)
(*                                                                         *)
(* Six specifications share the module.  Spec follows the viewport         *)
(* controller of a map and holds everything else still.  PollSpec follows  *)
(* one polling component (the arrivals poller of the page, the live-bus    *)
(* poller of LiveBusMap, or LiveBusTracker of the Leaflet map) through     *)
(* stop selections, timer ticks and responses that arrive in any order.    *)
(* The page's arrivals cache is part of it, with a clock that advances in  *)
(* steps of 30 s.  PageSpec follows the page through location attempts,    *)
(* nearby-stops fetches, search results and selections.  SearchSpec        *)
(* follows the search box of CompactControls, in both of its copies, with  *)
(* its timers counted in units of 100 ms.  RouteSpec follows one           *)
(* invocation of an API route against an upstream service that may         *)
(* answer, fail, or never answer.  ProjSpec applies the projection of      *)
(* BusMap to points across the non-polar band.                             *)
(***************************************************************************)
EXTENDS Integers, Sequences, FiniteSets, TLC

\* the map component: viewport state, props, pointer and fingers
VARIABLES variant, zoom, center, isDragging, dragStart, dragOffset,
          selectedStop, userLocation, busStops, pointerInside, touches, gestures

\* a polling component: its interval timers, the fetches awaiting a
\* response and the data it displays
VARIABLES poller, mounted, timers, intervalRef, inflight, arrivals, buses, pollError

\* the page's arrivals cache: the clock, localStorage, and the state that
\* getArrivals and fetchFreshArrivals write besides arrivals and error
VARIABLES now, cache, lastUpdated, arrivalsLoading

\* the page's location and nearby-stops state: the geolocation requests and
\* nearby fetches awaiting an answer, and what they write
VARIABLES geoSupported, locating, nearby, abortControllerRef,
          loading, locationLoading, nearbyStops, showNearbyList

\* the search box: query text, debounce timer, searches awaiting a response,
\* the results shown and the stops last reported through onStopsFound, which
\* the page keeps as its busStops state
VARIABLES searchQuery, debounce, searches, searchResults, stopsFound

\* which copy of the search box, its loading flag, the favourites dropdown,
\* the selecting flag of the copy in live-bus-map.tsx, and the time left on
\* the debounce timer and on the timers that reset the flag
VARIABLES controls, searchLoading, showFavorites, isSelectingRef,
          debounceLeft, resetTimers

\* one invocation of an API route: which route, where its handler stands,
\* the upstream calls it awaits, its abort timer and its response
VARIABLES route, pc, upstream, groupsLeft, timeoutArmed, response

mapVars == <<variant, zoom, center, isDragging, dragStart, dragOffset,
             selectedStop, userLocation, busStops, pointerInside, touches, gestures>>

cacheVars == <<now, cache, lastUpdated, arrivalsLoading>>

pageVars == <<geoSupported, locating, nearby, abortControllerRef,
              loading, locationLoading, nearbyStops, showNearbyList>>

pollVars == <<poller, mounted, timers, intervalRef, inflight, arrivals, buses, pollError,
              cacheVars, pageVars>>

searchVars == <<searchQuery, debounce, searches, searchResults, stopsFound,
                controls, searchLoading, showFavorites, isSelectingRef,
                debounceLeft, resetTimers>>

routeVars == <<route, pc, upstream, groupsLeft, timeoutArmed, response>>

\* everything outside the map component
netVars == <<pollVars, searchVars, routeVars>>

vars == <<mapVars, pollVars, searchVars, routeVars>>

(* ------------------------------ bounds --------------------------------- *)

\* number of pan gestures (mouse-down / single-touch start) explored
MaxGestures == 1

\* largest number of fingers on the map at once (e.touches.length)
MaxTouches == 2

(* ------------------------------ numbers -------------------------------- *)

UnitsPerDeg == 2^22

Deg(d) == d * UnitsPerDeg

Pow2(n) == 2^n

Abs(a) == IF a < 0 THEN -a ELSE a

Max2(a, b) == IF a >= b THEN a ELSE b

Min2(a, b) == IF a <= b THEN a ELSE b

\* JavaScript's % takes the sign of the dividend
JsRem(a, m) == IF a >= 0 THEN a % m ELSE -((-a) % m)

\* Math.cos of an angle in units, in 1/256ths (Bhaskara's approximation on
\* sixteenths of a degree; 8294400 = 32400 * 16^2)
Cos256(lat) ==
  LET x == Abs(lat) \div (2^18)
  IN  ((8294400 - 4 * x * x) * 256) \div (8294400 + x * x)

(* ------------------------------- props --------------------------------- *)

Variants == {"LiveBusMap", "InteractiveMap", "BusMap"}

NoStop == "none"

NoUser == "none"

\* A: a central London stop (51.5033, -0.1195);  X: a stop outside the
\* Mercator band and next to the antimeridian (89.0, -179.9999)
StopIds == {"A", "X"}

StopLat == [A |-> 216020497, X |-> 373293056]

StopLon == [A |-> -501219, X |-> -754974301]

\* U: a user location in London (51.5155, -0.0922)
UserIds == {"U"}

UserLat == [U |-> 216071668]

UserLng == [U |-> -386715]

StopLists == {<<>>, <<"A", "X">>}

\* clientX / clientY of the pointer events
DownPositions == {[x |-> 100, y |-> 100]}

MovePositions == {[x |-> 100, y |-> 100], [x |-> 150, y |-> 130]}

Origin == [x |-> 0, y |-> 0]

\* rect.width / rect.height of the map element
MapWidth == 512

MapHeight == 512

(* --------------------------- component state --------------------------- *)

DefaultCenter == [lat |-> 216037694, lng |-> -536032]

DefaultZoom == 13

MaxZoom == 18

MinZoomLive == 3

MinZoomBusMap == 8

MinZoom == IF variant = "BusMap" THEN MinZoomBusMap ELSE MinZoomLive

StopZoom == 16

UserZoom == 15

BoundsZoom == 14

(* ----------------------------- projection ------------------------------ *)

\* Mercator ordinate ln(tan(pi/4 + lat/2)) at the knot latitudes, in units
\* of 2*pi / 2^15 (1/64 pixel of a 512 pixel wide world); linear between
\* the knots (every knot is a multiple of 2^10 units) and constant beyond
\* the last one
KnotLat ==
  <<Deg(0), Deg(5), Deg(10), Deg(15), Deg(20), Deg(25), Deg(30), Deg(35),
    Deg(40), Deg(45), Deg(50), Deg(55), Deg(60), Deg(65), Deg(70), Deg(75),
    Deg(80), Deg(85), Deg(89), Deg(90) - 2^21, Deg(90) - 2^18>>

KnotMerc ==
  <<0, 456, 915, 1381, 1859, 2351, 2865, 3405,
    3979, 4597, 5271, 6020, 6868, 7856, 9051, 10574,
    12705, 16330, 24727, 28342, 39187>>

NKnots == Len(KnotLat)

MercFwdPos(lat) ==
  IF lat >= KnotLat[NKnots] THEN KnotMerc[NKnots]
  ELSE LET i  == CHOOSE k \in 1 .. NKnots - 1 : KnotLat[k] <= lat /\ lat < KnotLat[k + 1]
           dl == (KnotLat[i + 1] - KnotLat[i]) \div 2^10
           dm == KnotMerc[i + 1] - KnotMerc[i]
           a  == lat - KnotLat[i]
       IN  KnotMerc[i] + ((a \div 2^10) * dm + ((a % 2^10) * dm) \div 2^10) \div dl

MercFwd(lat) == IF lat < 0 THEN -MercFwdPos(-lat) ELSE MercFwdPos(lat)

MercInvPos(m) ==
  IF m >= KnotMerc[NKnots] THEN KnotLat[NKnots]
  ELSE LET i  == CHOOSE k \in 1 .. NKnots - 1 : KnotMerc[k] <= m /\ m < KnotMerc[k + 1]
           dl == (KnotLat[i + 1] - KnotLat[i]) \div 2^10
           dm == KnotMerc[i + 1] - KnotMerc[i]
           n  == (m - KnotMerc[i]) * dl
       IN  KnotLat[i] + (n \div dm) * 2^10 + ((n % dm) * 2^10) \div dm

MercInv(m) == IF m < 0 THEN -MercInvPos(-m) ELSE MercInvPos(m)

DeltaLng_sameSign(dx, z) == (dx * 45 * Pow2(18 - z)) \div 2

\* deltaLng of handleMouseUp: (-dragOffset.x / worldWidth) * 360
DeltaLng(dx, z) == -((dx * 45 * Pow2(18 - z)) \div 2)

\* deltaLat of handleMouseUp: (dragOffset.y / worldWidth) * 360 * cos(lat)
DeltaLat(dy, z, lat) ==
  LET n == dy * 45 * Pow2(18 - z)
      c == Cos256(lat)
  IN  (n \div 512) * c + ((n % 512) * c) \div 512

\* the setCenter argument of handleMouseUp in LiveBusMap / InteractiveMap
CommitLive(c, z, off) ==
  [lat |-> Max2(-Deg(85), Min2(Deg(85), c.lat + DeltaLat(off.y, z, c.lat))),
   lng |-> JsRem(c.lng + DeltaLng(off.x, z) + Deg(180), Deg(360)) - Deg(180)]

\* BusMap.latLngToPixel: x in units of MapWidth / (360 * 2^22) pixel (the
\* map is linear in longitude), y in 1/64 pixel
BusLatLngToPixel(lat, lng) ==
  [x |-> lng + Deg(180),
   y |-> MapHeight * 32 - (MapWidth * MercFwd(lat)) \div 512]

BusPixelToLatLng_flipped(x, y) ==
  [lat |-> MercInv(((y - MapHeight * 32) * 512) \div MapWidth),
   lng |-> x - Deg(180)]

\* BusMap.pixelToLatLng, same units
BusPixelToLatLng(x, y) ==
  [lat |-> MercInv(((MapHeight * 32 - y) * 512) \div MapWidth),
   lng |-> x - Deg(180)]

\* the setCenter argument of handleMouseUp in BusMap
CommitBusMap(c, off) ==
  LET centerPixel == BusLatLngToPixel(c.lat, c.lng)
  IN  BusPixelToLatLng(centerPixel.x - off.x * (Deg(360) \div MapWidth),
                       centerPixel.y - off.y * 64)

Commit(v, c, z, off) ==
  IF v = "BusMap" THEN CommitBusMap(c, off) ELSE CommitLive(c, z, off)

\* the longitude span of px screen pixels at zoom z in LiveBusMap /
\* InteractiveMap.latLngToPixel (worldWidth = 256 * 2^zoom)
LivePx(px, z) == (px * 45 * Pow2(18 - z)) \div 2

\* screen x of a marker, as latLngToPixel and the marker code compute it,
\* in longitude units (LiveBusMap / InteractiveMap) or in units of
\* MapWidth / (360 * 2^22) pixel (BusMap)
MarkerX(v, lng, c, z, off) ==
  IF v = "BusMap"
  THEN BusLatLngToPixel(0, lng).x - BusLatLngToPixel(c.lat, c.lng).x
         + (MapWidth \div 2 + off.x) * (Deg(360) \div MapWidth)
  ELSE (lng - c.lng) + LivePx(MapWidth \div 2 + off.x, z)

\* screen y of a BusMap marker, in 1/64 pixel
BusMarkerY(lat, c, off) ==
  BusLatLngToPixel(lat, 0).y - BusLatLngToPixel(c.lat, c.lng).y
    + MapHeight * 32 + off.y * 64

StopPos(s) == [lat |-> StopLat[s], lng |-> StopLon[s]]

UserPos(u) == [lat |-> UserLat[u], lng |-> UserLng[u]]

RECURSIVE SeqMax(_, _), SeqMin(_, _)

SeqMax(f, s) ==
  IF Len(s) = 1 THEN f[s[1]] ELSE Max2(f[s[1]], SeqMax(f, Tail(s)))

SeqMin(f, s) ==
  IF Len(s) = 1 THEN f[s[1]] ELSE Min2(f[s[1]], SeqMin(f, Tail(s)))

\* centre of the bounding box of the stop list
BoundsCenter(stops) ==
  [lat |-> (SeqMax(StopLat, stops) + SeqMin(StopLat, stops)) \div 2,
   lng |-> (SeqMax(StopLon, stops) + SeqMin(StopLon, stops)) \div 2]

\* the auto-centre effect: the new center, zoom and dragOffset
AutoCenter(v, sel, usr, stops, c, z, off) ==
  IF v = "BusMap"
  THEN IF sel # NoStop THEN [center |-> StopPos(sel), zoom |-> StopZoom, off |-> off]
       ELSE IF Len(stops) > 0
            THEN [center |-> BoundsCenter(stops), zoom |-> BoundsZoom, off |-> off]
            ELSE [center |-> c, zoom |-> z, off |-> off]
  ELSE IF sel # NoStop THEN [center |-> StopPos(sel), zoom |-> StopZoom, off |-> Origin]
       ELSE IF usr # NoUser
            THEN [center |-> UserPos(usr), zoom |-> UserZoom, off |-> Origin]
            ELSE IF Len(stops) > 0
                 THEN [center |-> BoundsCenter(stops), zoom |-> BoundsZoom, off |-> Origin]
                 ELSE [center |-> c, zoom |-> z, off |-> Origin]

(* ------------------------------ rendering ------------------------------ *)

\* a Mercator ordinate difference in pixels of the 256 * 2^z pixel world
MercPx(m, z) == IF z >= 7 THEN m * Pow2(z - 7) ELSE m \div Pow2(7 - z)

\* screen y of a LiveBusMap / InteractiveMap marker (latLngToPixel), in pixels
LiveMarkerY(lat, c, z, off) ==
  MercPx(MercFwd(c.lat) - MercFwd(lat), z) + MapHeight \div 2 + off.y

\* one screen pixel in the units of MarkerX for BusMap
BusPxUnits == Deg(360) \div MapWidth

\* the test `x < -m || x > rect.width + m || y < -m || y > rect.height + m`
\* on the screen position of the entity at pos
OutsideMargin(v, pos, c, z, off, m) ==
  IF v = "BusMap"
  THEN LET x == MarkerX(v, pos.lng, c, z, off)
           y == BusMarkerY(pos.lat, c, off)
       IN  \/ x < -m * BusPxUnits \/ x > (MapWidth + m) * BusPxUnits
           \/ y < -m * 64 \/ y > (MapHeight + m) * 64
  ELSE LET x == MarkerX(v, pos.lng, c, z, off)
           y == LiveMarkerY(pos.lat, c, z, off)
       IN  \/ x < LivePx(-m, z) \/ x > LivePx(MapWidth + m, z)
           \/ y < -m \/ y > MapHeight + m

\* the margin literal of the marker code
CullMargin == IF variant = "BusMap" THEN 20 ELSE 50

StopsShown == {busStops[i] : i \in 1 .. Len(busStops)}

\* a stop marker of the busStops.map(...) block is rendered
StopMarkerRendered(s) ==
  /\ s \in StopsShown
  /\ ~OutsideMargin(variant, StopPos(s), center, zoom, dragOffset, CullMargin)

\* BusMap draws the selected stop a second time, with no visibility test
SelectedMarkerRendered == variant = "BusMap" /\ selectedStop # NoStop

\* the "Your Location" marker
UserMarkerRendered ==
  /\ variant # "BusMap"
  /\ userLocation # NoUser
  /\ ~OutsideMargin(variant, UserPos(userLocation), center, zoom, dragOffset, CullMargin)

\* latLngToTile: floor((lng + 180) / 360 * 2^z) and
\* floor((1 - mercator(lat) / pi) / 2 * 2^z)
latLngToTile(lat, lng, z) ==
  [x |-> (lng + Deg(180)) \div (45 * Pow2(25 - z)),
   y |-> IF z <= 15 THEN (2^14 - MercFwd(lat)) \div Pow2(15 - z)
                    ELSE (2^14 - MercFwd(lat)) * Pow2(z - 15)]

CeilDiv(a, b) == (a + b - 1) \div b

TilesX == CeilDiv(MapWidth, 256) + 2

TilesY == CeilDiv(MapHeight, 256) + 2

\* the tiles the two loops of renderTiles visit
CandidateTiles ==
  IF variant = "BusMap" THEN {}
  ELSE LET centerTile == latLngToTile(center.lat, center.lng, zoom)
       IN  {[x |-> centerTile.x + dx, y |-> centerTile.y + dy] :
              dx \in -(TilesX \div 2) .. (TilesX \div 2),
              dy \in -(TilesY \div 2) .. (TilesY \div 2)}

EmittedTiles_unclipped == CandidateTiles

\* the tiles renderTiles pushes an <img> for
EmittedTiles ==
  {t \in CandidateTiles :
     t.x >= 0 /\ t.y >= 0 /\ t.x < Pow2(zoom) /\ t.y < Pow2(zoom)}

\* BusMap has no renderTiles; it paints the one tile under the centre as a
\* CSS background, with no range test
BusBackgroundTile == latLngToTile(center.lat, center.lng, zoom)

(* ------------------------ polling: state and helpers ------------------- *)

Pollers == {"page", "LiveBusMap", "LiveBusTracker"}

\* an empty arrivals or buses list; otherwise the lists are named by the
\* stop whose data they hold
NoData == "empty"

\* intervalRef.current = null
NoTimer == 0

\* most fetches of one component awaiting a response at once
MaxInFlight == 2

ClearInterval_none(ts, id) == ts

\* clearInterval(id)
ClearInterval(ts, id) == {t \in ts : t.id # id}

\* setInterval returns an id that no live timer and no ref still holds
NewTimerId(ts, ref) ==
  CHOOSE n \in 1 .. Cardinality(ts) + 2 : n # ref /\ \A t \in ts : t.id # n

Remove(q, i) == SubSeq(q, 1, i - 1) \o SubSeq(q, i + 1, Len(q))

\* the interval of the page's poll timer, in ms; the clock of the model
\* advances by this much at a time
PollInterval == 30000

\* const CACHE_TTL, in ms
CACHE_TTL == 60 * 1000

\* the clock stops after this many intervals
MaxTime == 3

\* localStorage.getItem returns null
NoEntry == [key |-> "", data |-> NoData, timestamp |-> -1]

\* localStorage.getItem(`arrivals-${stopId}`), parsed; the cache is the set
\* of the items stored, each under the stop id it was stored for
getItem(c, stopId) ==
  IF \E e \in c : e.key = stopId
  THEN CHOOSE e \in c : e.key = stopId
  ELSE NoEntry

\* lastUpdated = null
NoDate == -1

getCachedArrivals_noTtl(c, stopId, t) == getItem(c, stopId)

\* getCachedArrivals(stopId) at time t: the entry under the stop's key, if it
\* is younger than CACHE_TTL
getCachedArrivals(c, stopId, t) ==
  LET e == getItem(c, stopId)
  IN  IF e # NoEntry /\ t - e.timestamp < CACHE_TTL THEN e ELSE NoEntry

\* setCachedArrivals(stopId, data) at time t
setCachedArrivals(c, stopId, data, t) ==
  {e \in c : e.key # stopId} \cup {[key |-> stopId, data |-> data, timestamp |-> t]}

\* the cache state of a first visit
CacheIdle ==
  /\ now = 0
  /\ cache = {}
  /\ lastUpdated = NoDate
  /\ arrivalsLoading = FALSE

\* abortControllerRef.current = null
NoController == 0

\* most location attempts awaiting an answer at once, be it the answer of
\* the geolocation request or that of the nearby fetch after it
MaxNearby == 2

\* the page before its first location attempt
PageIdle ==
  /\ geoSupported = TRUE
  /\ locating = 0
  /\ nearby = <<>>
  /\ abortControllerRef = NoController
  /\ loading = FALSE
  /\ locationLoading = FALSE
  /\ nearbyStops = <<>>
  /\ showNearbyList = FALSE

\* the state of a polling component mounted with no stop selected
PollIdle ==
  /\ mounted = TRUE
  /\ timers = {}
  /\ intervalRef = NoTimer
  /\ inflight = <<>>
  /\ arrivals = NoData
  /\ buses = NoData
  /\ pollError = FALSE
  /\ CacheIdle
  /\ PageIdle

(* ------------------------- search: state and helpers ------------------- *)

\* what the user types into the search box
TypedQueries == {"", "a", "ab"}

\* data.matches of the search route for a query
Matches(q) ==
  IF q = "a" THEN <<"A", "X">> ELSE IF q = "Stop X" THEN <<"X">> ELSE <<"A">>

\* stop.commonName
CommonName(s) == IF s = "A" THEN "Stop A" ELSE "Stop X"

\* most searches awaiting a response at once
MaxSearches == 2

\* the two copies of CompactControls: compact-controls.tsx, and the one in
\* live-bus-map.tsx with the favourites dropdown and isSelectingRef
Controls == {"compact-controls", "live-bus-map"}

\* the delay of the debounce timer, in units of 100 ms
DebounceDelay(c) == IF c = "live-bus-map" THEN 4 ELSE 3

\* the delay of the timer that resets isSelectingRef, in units of 100 ms
ResetDelay == 5

\* most reset timers pending at once
MaxResets == 2

\* the favourites loaded by loadFavorites
Favorites == <<"A", "X">>

\* the search box at rest: empty query, the debounce timer of the mount
\* has fired
SearchIdle ==
  /\ searchQuery = ""
  /\ debounce = FALSE
  /\ searches = <<>>
  /\ searchResults = <<>>
  /\ stopsFound = <<>>
  /\ controls = "compact-controls"
  /\ searchLoading = FALSE
  /\ showFavorites = FALSE
  /\ isSelectingRef = FALSE
  /\ debounceLeft = 0
  /\ resetTimers = <<>>

(* ------------------------- routes: state and helpers ------------------- *)

\* buslocation2 is the second copy of the bus-location route, which tests
\* lat and lon
Routes == {"search", "buslocation", "buslocation2", "arrivals"}

\* what the upstream holds for a vehicle: a record with a position, a record
\* without lat or lon, or no record
VehicleRecords == {"located", "no-position", "none"}

\* the value a busPromise resolves to: null, or the bus built from data[0]
VehicleResult(r, rec) ==
  IF rec = "none" THEN "null"
  ELSE IF r = "buslocation2" /\ rec = "no-position" THEN "null"
  ELSE rec

\* uniqueVehicleIds.slice(0, 5)
BusesToTrack == 5

\* most stop groups among the top matches of a search
MaxGroups == 2

\* no invocation yet
RouteIdle ==
  /\ route = "search"
  /\ pc = "idle"
  /\ upstream = <<>>
  /\ groupsLeft = 0
  /\ timeoutArmed = FALSE
  /\ response = "none"

(* -------------------------------- Init --------------------------------- *)

\* useState initial values followed by the first run of the auto-centre
\* effect on mount
Init ==
  /\ variant \in Variants
  /\ selectedStop \in {NoStop} \cup StopIds
  /\ userLocation \in (IF variant = "BusMap" THEN {NoUser} ELSE {NoUser} \cup UserIds)
  /\ busStops \in StopLists
  /\ LET r == AutoCenter(variant, selectedStop, userLocation, busStops,
                         DefaultCenter, DefaultZoom, Origin)
     IN  /\ center = r.center
         /\ zoom = r.zoom
         /\ dragOffset = r.off
  /\ isDragging = FALSE
  /\ dragStart = Origin
  /\ pointerInside = FALSE
  /\ touches = 0
  /\ gestures = 0
  /\ poller = "LiveBusMap" /\ PollIdle
  /\ SearchIdle
  /\ RouteIdle

props == <<variant, selectedStop, userLocation, busStops>>

\* the pointer and the fingers, as the browser tracks them
env == <<pointerInside, touches>>

(* ------------------------------ handlers ------------------------------- *)

handleMouseDown(p) ==
  /\ isDragging' = TRUE
  /\ dragStart' = p
  /\ UNCHANGED <<zoom, center, dragOffset>>

handleMouseMove_unguarded(p) ==
  /\ dragOffset' = [x |-> p.x - dragStart.x, y |-> p.y - dragStart.y]
  /\ UNCHANGED <<zoom, center, isDragging, dragStart>>

handleMouseMove_absolute(p) ==
  IF ~isDragging
  THEN UNCHANGED <<zoom, center, isDragging, dragStart, dragOffset>>
  ELSE /\ dragOffset' = [x |-> p.x, y |-> p.y]
       /\ UNCHANGED <<zoom, center, isDragging, dragStart>>

handleMouseMove(p) ==
  IF ~isDragging
  THEN UNCHANGED <<zoom, center, isDragging, dragStart, dragOffset>>
  ELSE /\ dragOffset' = [x |-> p.x - dragStart.x, y |-> p.y - dragStart.y]
       /\ UNCHANGED <<zoom, center, isDragging, dragStart>>

handleMouseUp ==
  IF ~isDragging
  THEN UNCHANGED <<zoom, center, isDragging, dragStart, dragOffset>>
  ELSE /\ isDragging' = FALSE
       /\ center' = Commit(variant, center, zoom, dragOffset)
       /\ dragOffset' = Origin
       /\ UNCHANGED <<zoom, dragStart>>

handleTouchStart_anyCount(n, p) ==
  /\ isDragging' = TRUE
  /\ dragStart' = p
  /\ UNCHANGED <<zoom, center, dragOffset>>

handleTouchStart(n, p) ==
  IF n = 1
  THEN /\ isDragging' = TRUE
       /\ dragStart' = p
       /\ UNCHANGED <<zoom, center, dragOffset>>
  ELSE UNCHANGED <<zoom, center, isDragging, dragStart, dragOffset>>

handleTouchMove(n, p) ==
  IF ~isDragging \/ n # 1
  THEN UNCHANGED <<zoom, center, isDragging, dragStart, dragOffset>>
  ELSE /\ dragOffset' = [x |-> p.x - dragStart.x, y |-> p.y - dragStart.y]
       /\ UNCHANGED <<zoom, center, isDragging, dragStart>>

handleTouchEnd == handleMouseUp

(* ------------------------------- actions ------------------------------- *)

MouseEnter ==
  /\ ~pointerInside
  /\ pointerInside' = TRUE
  /\ UNCHANGED <<zoom, center, isDragging, dragStart, dragOffset, props, touches, gestures>>
  /\ UNCHANGED netVars

MouseDown ==
  /\ pointerInside
  /\ gestures < MaxGestures
  /\ \E p \in DownPositions : handleMouseDown(p)
  /\ gestures' = gestures + 1
  /\ UNCHANGED <<props, env>>
  /\ UNCHANGED netVars

MouseMove ==
  /\ pointerInside
  /\ \E p \in MovePositions : handleMouseMove(p)
  /\ UNCHANGED <<props, env, gestures>>
  /\ UNCHANGED netVars

MouseUp ==
  /\ pointerInside
  /\ handleMouseUp
  /\ UNCHANGED <<props, env, gestures>>
  /\ UNCHANGED netVars

MouseLeave_noHandler ==
  /\ pointerInside
  /\ pointerInside' = FALSE
  /\ UNCHANGED <<zoom, center, isDragging, dragStart, dragOffset, props, touches, gestures>>
  /\ UNCHANGED netVars

\* onMouseLeave={handleMouseUp}
MouseLeave ==
  /\ pointerInside
  /\ pointerInside' = FALSE
  /\ handleMouseUp
  /\ UNCHANGED <<props, touches, gestures>>
  /\ UNCHANGED netVars

\* BusMap binds no touch handlers.  e.touches holds the fingers now on the
\* surface: the new one included on touchstart, the lifted one excluded on
\* touchend.
TouchStart ==
  /\ variant # "BusMap"
  /\ touches < MaxTouches
  /\ touches = 0 => gestures < MaxGestures
  /\ touches' = touches + 1
  /\ \E p \in DownPositions : handleTouchStart(touches + 1, p)
  /\ gestures' = IF touches = 0 THEN gestures + 1 ELSE gestures
  /\ UNCHANGED <<props, pointerInside>>
  /\ UNCHANGED netVars

TouchMove ==
  /\ variant # "BusMap"
  /\ touches > 0
  /\ \E p \in MovePositions : handleTouchMove(touches, p)
  /\ UNCHANGED <<props, env, gestures>>
  /\ UNCHANGED netVars

TouchEnd ==
  /\ variant # "BusMap"
  /\ touches > 0
  /\ touches' = touches - 1
  /\ handleTouchEnd
  /\ UNCHANGED <<props, pointerInside, gestures>>
  /\ UNCHANGED netVars

zoomIn ==
  /\ zoom' = Min2(zoom + 1, MaxZoom)
  /\ UNCHANGED <<center, isDragging, dragStart, dragOffset, props, env, gestures>>
  /\ UNCHANGED netVars

zoomOut_liveMin ==
  /\ zoom' = Max2(zoom - 1, MinZoomLive)
  /\ UNCHANGED <<center, isDragging, dragStart, dragOffset, props, env, gestures>>
  /\ UNCHANGED netVars

zoomOut ==
  /\ zoom' = Max2(zoom - 1, MinZoom)
  /\ UNCHANGED <<center, isDragging, dragStart, dragOffset, props, env, gestures>>
  /\ UNCHANGED netVars

resetView_endsDrag ==
  /\ center' = DefaultCenter
  /\ zoom' = DefaultZoom
  /\ dragOffset' = Origin
  /\ isDragging' = FALSE
  /\ UNCHANGED <<dragStart, props, env, gestures>>
  /\ UNCHANGED netVars

resetView ==
  /\ center' = DefaultCenter
  /\ zoom' = DefaultZoom
  /\ dragOffset' = IF variant = "BusMap" THEN dragOffset ELSE Origin
  /\ UNCHANGED <<isDragging, dragStart, props, env, gestures>>
  /\ UNCHANGED netVars

centerOnUser ==
  /\ variant = "LiveBusMap"
  /\ IF userLocation = NoUser
     THEN UNCHANGED <<center, zoom, dragOffset>>
     ELSE /\ center' = UserPos(userLocation)
          /\ zoom' = UserZoom
          /\ dragOffset' = Origin
  /\ UNCHANGED <<isDragging, dragStart, props, env, gestures>>
  /\ UNCHANGED netVars

centerOnSelectedStop ==
  /\ variant = "LiveBusMap"
  /\ IF selectedStop = NoStop
     THEN UNCHANGED <<center, zoom, dragOffset>>
     ELSE /\ center' = StopPos(selectedStop)
          /\ zoom' = StopZoom
          /\ dragOffset' = Origin
  /\ UNCHANGED <<isDragging, dragStart, props, env, gestures>>
  /\ UNCHANGED netVars

\* the parent re-renders the map with new props; a dependency of the
\* auto-centre effect changed, so the effect runs
PropsChange ==
  /\ \E sel \in {NoStop} \cup StopIds,
        usr \in (IF variant = "BusMap" THEN {NoUser} ELSE {NoUser} \cup UserIds),
        stops \in StopLists :
       /\ <<sel, usr, stops>> # <<selectedStop, userLocation, busStops>>
       /\ selectedStop' = sel
       /\ userLocation' = usr
       /\ busStops' = stops
       /\ LET r == AutoCenter(variant, sel, usr, stops, center, zoom, dragOffset)
          IN  /\ center' = r.center
              /\ zoom' = r.zoom
              /\ dragOffset' = r.off
  /\ UNCHANGED <<variant, isDragging, dragStart, env, gestures>>
  /\ UNCHANGED netVars

Next ==
  \/ MouseEnter
  \/ MouseDown
  \/ MouseMove
  \/ MouseUp
  \/ MouseLeave
  \/ TouchStart
  \/ TouchMove
  \/ TouchEnd
  \/ zoomIn
  \/ zoomOut
  \/ resetView
  \/ centerOnUser
  \/ centerOnSelectedStop
  \/ PropsChange

Spec == Init /\ [][Next]_vars

TypeOK ==
  /\ variant \in Variants
  /\ zoom \in Int
  /\ center.lat \in Int /\ center.lng \in Int
  /\ isDragging \in BOOLEAN
  /\ dragStart \in {Origin} \cup DownPositions
  /\ selectedStop \in {NoStop} \cup StopIds
  /\ userLocation \in {NoUser} \cup UserIds
  /\ busStops \in StopLists
  /\ pointerInside \in BOOLEAN
  /\ touches \in 0 .. MaxTouches
  /\ gestures \in 0 .. MaxGestures

(* ------------------------------ PollSpec ------------------------------- *)

\* the page and its map, mounted with search results on show and no stop
\* selected; the mouse is not touched
PollInit ==
  /\ poller \in Pollers
  /\ PollIdle
  /\ variant = "LiveBusMap"
  /\ selectedStop = NoStop
  /\ userLocation = NoUser
  /\ busStops = Matches("a")
  /\ LET r == AutoCenter(variant, selectedStop, userLocation, busStops,
                         DefaultCenter, DefaultZoom, Origin)
     IN  /\ center = r.center
         /\ zoom = r.zoom
         /\ dragOffset = r.off
  /\ isDragging = FALSE
  /\ dragStart = Origin
  /\ pointerInside = FALSE
  /\ touches = 0
  /\ gestures = 0
  /\ searchQuery = "a"
  /\ debounce = FALSE
  /\ searches = <<>>
  /\ searchResults = Matches("a")
  /\ stopsFound = Matches("a")
  /\ controls = "compact-controls"
  /\ searchLoading = FALSE
  /\ showFavorites = FALSE
  /\ isSelectingRef = FALSE
  /\ debounceLeft = 0
  /\ resetTimers = <<>>
  /\ RouteIdle

\* the map's auto-centre effect for the selection s
Recenter(s) ==
  LET r == AutoCenter(variant, s, userLocation, busStops, center, zoom, dragOffset)
  IN  /\ center' = r.center
      /\ zoom' = r.zoom
      /\ dragOffset' = r.off

\* the poll effect re-runs for the selection s: the cleanup of the previous
\* run, then setInterval if a stop is selected.  The page keeps the id in a
\* const of the effect run, the two maps in intervalRef.
PollEffect(s) ==
  LET cleared == ClearInterval(timers, intervalRef)
  IN  IF s = NoStop
      THEN /\ timers' = cleared
           /\ intervalRef' = (IF poller = "page" THEN NoTimer ELSE intervalRef)
      ELSE LET id == NewTimerId(cleared, intervalRef)
           IN  /\ timers' = cleared \cup {[id |-> id, stop |-> s]}
               /\ intervalRef' = id

\* fetch(...) for stop s; background marks the refresh behind cached arrivals
StartFetch(s, bg) == inflight' = Append(inflight, [stop |-> s, background |-> bg])

fetchFreshArrivals_loading(s, bg) ==
  /\ StartFetch(s, bg)
  /\ arrivalsLoading' = (IF mounted THEN TRUE ELSE arrivalsLoading)
  /\ pollError' = (IF mounted /\ ~bg THEN FALSE ELSE pollError)

\* fetchFreshArrivals(stopId, isBackground) up to its await
fetchFreshArrivals(s, bg) ==
  /\ StartFetch(s, bg)
  /\ arrivalsLoading' = (IF mounted /\ ~bg THEN TRUE ELSE arrivalsLoading)
  /\ pollError' = (IF mounted /\ ~bg THEN FALSE ELSE pollError)

\* getArrivals(stopId): the cached arrivals and a background refresh, or a
\* foreground fetch
getArrivals(s) ==
  LET cached == getCachedArrivals(cache, s, now)
  IN  IF cached # NoEntry
      THEN /\ arrivals' = (IF mounted THEN cached.data ELSE arrivals)
           /\ lastUpdated' = (IF mounted THEN cached.timestamp ELSE lastUpdated)
           /\ fetchFreshArrivals(s, TRUE)
      ELSE /\ fetchFreshArrivals(s, FALSE)
           /\ UNCHANGED <<arrivals, lastUpdated>>

\* handleStopSelect(stop): setSelectedStop, setShowNearbyList(false) and
\* getArrivals in the page, a new selectedStop prop in the maps; then the
\* effects of the re-render: auto-centre, and the poll effect (with its
\* immediate fetch in the maps)
SelectStop ==
  /\ mounted
  /\ Len(inflight) < MaxInFlight
  /\ \E s \in StopIds \ {selectedStop} :
       /\ selectedStop' = s
       /\ Recenter(s)
       /\ PollEffect(s)
       /\ IF poller = "page"
          THEN /\ getArrivals(s)
               /\ showNearbyList' = FALSE
          ELSE /\ StartFetch(s, FALSE)
               /\ UNCHANGED <<arrivals, lastUpdated, arrivalsLoading, pollError,
                              showNearbyList>>
  /\ UNCHANGED <<buses, poller, mounted, now, cache>>
  /\ UNCHANGED <<geoSupported, locating, nearby, abortControllerRef,
                 loading, locationLoading, nearbyStops>>
  /\ UNCHANGED <<variant, isDragging, dragStart, userLocation, busStops, env, gestures>>
  /\ UNCHANGED <<searchVars, routeVars>>

Deselect_keepsStop ==
  /\ mounted
  /\ poller = "page"
  /\ selectedStop # NoStop
  /\ arrivals' = NoData
  /\ showNearbyList' = TRUE
  /\ UNCHANGED <<inflight, pollError, poller, mounted, buses, timers, intervalRef>>
  /\ UNCHANGED <<cacheVars, geoSupported, locating, nearby, abortControllerRef,
                 loading, locationLoading, nearbyStops>>
  /\ UNCHANGED <<mapVars, searchVars, routeVars>>

\* handleBackToNearby: setSelectedStop(null), setArrivals([]) and
\* setShowNearbyList(true); in the maps, the selectedStop prop becomes null,
\* and the poll effect of LiveBusMap calls fetchBusLocations, which clears
\* buses
Deselect ==
  /\ mounted
  /\ selectedStop # NoStop
  /\ selectedStop' = NoStop
  /\ Recenter(NoStop)
  /\ PollEffect(NoStop)
  /\ arrivals' = (IF poller = "page" THEN NoData ELSE arrivals)
  /\ showNearbyList' = (IF poller = "page" THEN TRUE ELSE showNearbyList)
  /\ buses' = (IF poller = "LiveBusMap" THEN NoData ELSE buses)
  /\ UNCHANGED <<inflight, pollError, poller, mounted>>
  /\ UNCHANGED <<cacheVars, geoSupported, locating, nearby, abortControllerRef,
                 loading, locationLoading, nearbyStops>>
  /\ UNCHANGED <<variant, isDragging, dragStart, userLocation, busStops, env, gestures>>
  /\ UNCHANGED <<searchVars, routeVars>>

\* an interval timer fires and fetches for the stop of its closure; in the
\* page this is fetchFreshArrivals(selectedStop.id), a foreground fetch
Tick ==
  /\ Len(inflight) < MaxInFlight
  /\ \E t \in timers :
       IF poller = "page"
       THEN fetchFreshArrivals(t.stop, FALSE)
       ELSE StartFetch(t.stop, FALSE) /\ UNCHANGED <<arrivalsLoading, pollError>>
  /\ UNCHANGED <<poller, mounted, timers, intervalRef, arrivals, buses>>
  /\ UNCHANGED <<now, cache, lastUpdated, pageVars>>
  /\ UNCHANGED <<mapVars, searchVars, routeVars>>

\* onRefresh of the arrivals panel: getArrivals(selectedStop.id)
Refresh ==
  /\ mounted
  /\ poller = "page"
  /\ selectedStop # NoStop
  /\ Len(inflight) < MaxInFlight
  /\ getArrivals(selectedStop)
  /\ UNCHANGED <<poller, mounted, timers, intervalRef, buses>>
  /\ UNCHANGED <<now, cache, pageVars>>
  /\ UNCHANGED <<mapVars, searchVars, routeVars>>

\* time passes; only the page's cache reads the clock
TimePasses ==
  /\ poller = "page"
  /\ now < MaxTime * PollInterval
  /\ now' = now + PollInterval
  /\ UNCHANGED <<poller, mounted, timers, intervalRef, inflight, arrivals, buses, pollError>>
  /\ UNCHANGED <<cache, lastUpdated, arrivalsLoading, pageVars>>
  /\ UNCHANGED <<mapVars, searchVars, routeVars>>

\* the i-th fetch resolves with an OK response; the page also stamps and
\* caches the data, and a foreground fetch ends arrivalsLoading
ResponseOk(i) ==
  LET f == inflight[i]
  IN  /\ inflight' = Remove(inflight, i)
      /\ arrivals' = (IF mounted /\ poller = "page" THEN f.stop ELSE arrivals)
      /\ buses' = (IF mounted /\ poller # "page" THEN f.stop ELSE buses)
      /\ lastUpdated' = (IF mounted /\ poller = "page" THEN now ELSE lastUpdated)
      /\ cache' = (IF poller = "page"
                   THEN setCachedArrivals(cache, f.stop, f.stop, now) ELSE cache)
      /\ arrivalsLoading' = (IF mounted /\ poller = "page" /\ ~f.background
                             THEN FALSE ELSE arrivalsLoading)
      /\ UNCHANGED <<poller, mounted, timers, intervalRef, pollError, now, pageVars>>
      /\ UNCHANGED <<mapVars, searchVars, routeVars>>

\* the i-th fetch rejects or resolves non-OK: the catch block
ResponseFail(i) ==
  LET f == inflight[i]
  IN  /\ inflight' = Remove(inflight, i)
      /\ arrivals' = (IF mounted /\ poller = "page" /\ ~f.background
                      THEN NoData ELSE arrivals)
      /\ buses' = (IF mounted /\ poller = "LiveBusMap" THEN NoData ELSE buses)
      /\ pollError' = (IF /\ mounted
                          /\ \/ poller = "LiveBusTracker"
                             \/ poller = "page" /\ ~f.background
                       THEN TRUE ELSE pollError)
      /\ arrivalsLoading' = (IF mounted /\ poller = "page" /\ ~f.background
                             THEN FALSE ELSE arrivalsLoading)
      /\ UNCHANGED <<poller, mounted, timers, intervalRef>>
      /\ UNCHANGED <<now, cache, lastUpdated, pageVars>>
      /\ UNCHANGED <<mapVars, searchVars, routeVars>>

AbortPrevious_none(calls, ref) == calls

\* abortControllerRef.current.abort(): the fetch of that controller is
\* aborted
AbortPrevious(calls, ref) ==
  [k \in 1 .. Len(calls) |->
     IF calls[k].id = ref THEN [calls[k] EXCEPT !.aborted = TRUE] ELSE calls[k]]

\* the component unmounts: the cleanup of the poll effect runs, and in the
\* page the cleanup of the mount effect, which aborts the nearby fetch
Unmount ==
  /\ mounted
  /\ mounted' = FALSE
  /\ timers' = ClearInterval(timers, intervalRef)
  /\ nearby' = (IF poller = "page" THEN AbortPrevious(nearby, abortControllerRef) ELSE nearby)
  /\ UNCHANGED <<poller, intervalRef, inflight, arrivals, buses, pollError>>
  /\ UNCHANGED <<cacheVars, geoSupported, locating, abortControllerRef,
                 loading, locationLoading, nearbyStops, showNearbyList>>
  /\ UNCHANGED <<mapVars, searchVars, routeVars>>

PollNext ==
  \/ SelectStop
  \/ Deselect
  \/ Tick
  \/ Refresh
  \/ TimePasses
  \/ \E i \in 1 .. Len(inflight) : ResponseOk(i)
  \/ \E i \in 1 .. Len(inflight) : ResponseFail(i)
  \/ Unmount

PollSpec == PollInit /\ [][PollNext]_vars

(* ------------------------------ PageSpec ------------------------------- *)

\* the page as constructed: nothing located, nothing found, nothing
\* selected; the browser does or does not offer navigator.geolocation
PageInit ==
  /\ poller = "page"
  /\ mounted = TRUE
  /\ timers = {}
  /\ intervalRef = NoTimer
  /\ inflight = <<>>
  /\ arrivals = NoData
  /\ buses = NoData
  /\ pollError = FALSE
  /\ CacheIdle
  /\ geoSupported \in BOOLEAN
  /\ locating = 0
  /\ nearby = <<>>
  /\ abortControllerRef = NoController
  /\ loading = FALSE
  /\ locationLoading = FALSE
  /\ nearbyStops = <<>>
  /\ showNearbyList = FALSE
  /\ variant = "LiveBusMap"
  /\ selectedStop = NoStop
  /\ userLocation = NoUser
  /\ busStops = <<>>
  /\ center = DefaultCenter
  /\ zoom = DefaultZoom
  /\ dragOffset = Origin
  /\ isDragging = FALSE
  /\ dragStart = Origin
  /\ pointerInside = FALSE
  /\ touches = 0
  /\ gestures = 0
  /\ SearchIdle
  /\ RouteIdle

\* allStops: the nearby stops, then the found stops that are not among them
AllStops(near, found) ==
  near \o SelectSeq(found, LAMBDA s : \A k \in 1 .. Len(near) : near[k] # s)

\* the page re-renders its map with new props, and the map's auto-centre
\* effect runs
Rerender(sel, usr, stops) ==
  LET r == AutoCenter(variant, sel, usr, stops, center, zoom, dragOffset)
  IN  /\ selectedStop' = sel
      /\ userLocation' = usr
      /\ busStops' = stops
      /\ center' = r.center
      /\ zoom' = r.zoom
      /\ dragOffset' = r.off

\* data.stopPoints of a nearby response that holds stops
NearbyFound == <<"A", "X">>

\* new AbortController(): one that no fetch awaiting an answer and no ref
\* still holds
NewController(calls, ref) ==
  CHOOSE n \in 1 .. Len(calls) + 2 :
    n # ref /\ \A k \in 1 .. Len(calls) : calls[k].id # n

LocationFailed_noFinally ==
  /\ pollError' = (IF mounted THEN TRUE ELSE pollError)
  /\ UNCHANGED locationLoading

\* the catch and finally blocks of getCurrentLocation
LocationFailed ==
  /\ pollError' = (IF mounted THEN TRUE ELSE pollError)
  /\ locationLoading' = (IF mounted THEN FALSE ELSE locationLoading)

\* getCurrentLocation up to its await: the mount effect, or the locate
\* button of the controls
GetCurrentLocation ==
  /\ mounted
  /\ IF ~geoSupported
     THEN /\ pollError' = TRUE
          /\ UNCHANGED <<locating, locationLoading>>
     ELSE /\ locating + Len(nearby) < MaxNearby
          /\ locating' = locating + 1
          /\ locationLoading' = TRUE
          /\ pollError' = FALSE
  /\ UNCHANGED <<poller, mounted, timers, intervalRef, inflight, arrivals, buses>>
  /\ UNCHANGED <<cacheVars, geoSupported, nearby, abortControllerRef,
                 loading, nearbyStops, showNearbyList>>
  /\ UNCHANGED <<mapVars, searchVars, routeVars>>

\* getCurrentPosition answers with a position: the four setters, then
\* findNearbyStops up to its await, which aborts the controller of the
\* previous call and starts a fetch under a new one
GeoSuccess ==
  /\ locating > 0
  /\ locating' = locating - 1
  /\ LET controller == NewController(nearby, abortControllerRef)
     IN  /\ nearby' = Append(AbortPrevious(nearby, abortControllerRef),
                             [id |-> controller, aborted |-> FALSE])
         /\ abortControllerRef' = controller
  /\ IF mounted
     THEN /\ Rerender(NoStop, "U", AllStops(nearbyStops, <<>>))
          /\ stopsFound' = <<>>
          /\ arrivals' = NoData
          /\ PollEffect(NoStop)
          /\ loading' = TRUE
          /\ pollError' = FALSE
     ELSE UNCHANGED <<selectedStop, userLocation, busStops, center, zoom, dragOffset,
                      stopsFound, arrivals, timers, intervalRef, loading, pollError>>
  /\ UNCHANGED <<poller, mounted, inflight, buses>>
  /\ UNCHANGED <<cacheVars, geoSupported, locationLoading, nearbyStops, showNearbyList>>
  /\ UNCHANGED <<variant, isDragging, dragStart, env, gestures>>
  /\ UNCHANGED <<searchQuery, debounce, searches, searchResults, controls,
                 searchLoading, showFavorites, isSelectingRef, debounceLeft, resetTimers>>
  /\ UNCHANGED routeVars

\* getCurrentPosition answers with an error: permission denied, position
\* unavailable or timeout
GeoFail ==
  /\ locating > 0
  /\ locating' = locating - 1
  /\ LocationFailed
  /\ UNCHANGED <<poller, mounted, timers, intervalRef, inflight, arrivals, buses>>
  /\ UNCHANGED <<cacheVars, geoSupported, nearby, abortControllerRef,
                 loading, nearbyStops, showNearbyList>>
  /\ UNCHANGED <<mapVars, searchVars, routeVars>>

\* how the fetch of a nearby call can end: an aborted fetch rejects with an
\* AbortError
NearbyOutcomes(call) ==
  IF call.aborted THEN {"aborted"} ELSE {"stops", "empty", "fail"}

\* the i-th nearby fetch settles and findNearbyStops runs to its end: the
\* try or catch block, the finally block, and then the finally block of the
\* getCurrentLocation that awaited it
NearbySettles(i, out) ==
  LET call == nearby[i]
  IN  /\ out \in NearbyOutcomes(call)
      /\ nearby' = Remove(nearby, i)
      /\ IF mounted /\ out = "stops"
         THEN /\ nearbyStops' = NearbyFound
              /\ showNearbyList' = TRUE
              /\ Rerender(NoStop, userLocation, AllStops(NearbyFound, stopsFound))
              /\ arrivals' = NoData
              /\ PollEffect(NoStop)
              /\ UNCHANGED pollError
         ELSE IF mounted /\ out \in {"empty", "fail"}
         THEN /\ pollError' = TRUE
              /\ nearbyStops' = <<>>
              /\ showNearbyList' = FALSE
              /\ Rerender(selectedStop, userLocation, AllStops(<<>>, stopsFound))
              /\ UNCHANGED <<arrivals, timers, intervalRef>>
         ELSE UNCHANGED <<nearbyStops, showNearbyList, selectedStop, userLocation,
                          busStops, center, zoom, dragOffset, arrivals, timers,
                          intervalRef, pollError>>
      /\ IF abortControllerRef = call.id
         THEN /\ abortControllerRef' = NoController
              /\ loading' = (IF mounted THEN FALSE ELSE loading)
         ELSE UNCHANGED <<abortControllerRef, loading>>
      /\ locationLoading' = (IF mounted THEN FALSE ELSE locationLoading)
      /\ UNCHANGED <<poller, mounted, inflight, buses>>
      /\ UNCHANGED <<cacheVars, geoSupported, locating>>
      /\ UNCHANGED <<variant, isDragging, dragStart, env, gestures>>
      /\ UNCHANGED <<searchVars, routeVars>>

\* handleSearchResults(stops), the onStopsFound of the controls
handleSearchResults ==
  /\ mounted
  /\ \E stops \in {<<>>, Matches("ab")} :
       /\ stopsFound' = stops
       /\ Rerender(selectedStop, userLocation, AllStops(nearbyStops, stops))
  /\ showNearbyList' = FALSE
  /\ UNCHANGED <<poller, mounted, timers, intervalRef, inflight, arrivals, buses, pollError>>
  /\ UNCHANGED <<cacheVars, geoSupported, locating, nearby, abortControllerRef,
                 loading, locationLoading, nearbyStops>>
  /\ UNCHANGED <<variant, isDragging, dragStart, env, gestures>>
  /\ UNCHANGED <<searchQuery, debounce, searches, searchResults, controls,
                 searchLoading, showFavorites, isSelectingRef, debounceLeft, resetTimers>>
  /\ UNCHANGED routeVars

\* the page with its location, nearby-stops, search-result and selection
\* handlers; the poll timer, the refresh button and the clock are followed
\* in PollSpec
PageNext ==
  \/ GetCurrentLocation
  \/ GeoSuccess
  \/ GeoFail
  \/ \E i \in 1 .. Len(nearby), out \in {"stops", "empty", "fail", "aborted"} :
       NearbySettles(i, out)
  \/ handleSearchResults
  \/ SelectStop
  \/ Deselect
  \/ \E i \in 1 .. Len(inflight) : ResponseOk(i)
  \/ \E i \in 1 .. Len(inflight) : ResponseFail(i)
  \/ Unmount

PageSpec == PageInit /\ [][PageNext]_vars

(* ----------------------------- SearchSpec ------------------------------ *)

\* CompactControls just mounted: the debounce effect has set its first timer
SearchInit ==
  /\ controls \in Controls
  /\ searchQuery = ""
  /\ debounce = TRUE
  /\ debounceLeft = DebounceDelay(controls)
  /\ searches = <<>>
  /\ searchResults = <<>>
  /\ stopsFound = <<>>
  /\ searchLoading = FALSE
  /\ showFavorites = FALSE
  /\ isSelectingRef = FALSE
  /\ resetTimers = <<>>
  /\ poller = "page" /\ PollIdle
  /\ variant = "LiveBusMap"
  /\ selectedStop = NoStop
  /\ userLocation = NoUser
  /\ busStops = <<>>
  /\ center = DefaultCenter
  /\ zoom = DefaultZoom
  /\ dragOffset = Origin
  /\ isDragging = FALSE
  /\ dragStart = Origin
  /\ pointerInside = FALSE
  /\ touches = 0
  /\ gestures = 0
  /\ RouteIdle

\* the debounce effect re-runs: clearTimeout, then setTimeout
RestartDebounce ==
  /\ debounce' = TRUE
  /\ debounceLeft' = DebounceDelay(controls)

\* onChange: setSearchQuery, and the debounce effect re-runs; the copy in
\* live-bus-map.tsx also lowers isSelectingRef and closes the favourites
Type ==
  /\ \E q \in TypedQueries \ {searchQuery} : searchQuery' = q
  /\ RestartDebounce
  /\ isSelectingRef' = FALSE
  /\ showFavorites' = FALSE
  /\ UNCHANGED <<searches, searchResults, stopsFound, controls, searchLoading, resetTimers>>
  /\ UNCHANGED <<mapVars, pollVars, routeVars>>

\* onFocus of the copy in live-bus-map.tsx: the favourites open over an
\* empty query
Focus ==
  /\ controls = "live-bus-map"
  /\ searchQuery = ""
  /\ ~showFavorites
  /\ showFavorites' = TRUE
  /\ UNCHANGED <<searchQuery, debounce, searches, searchResults, stopsFound, controls,
                 searchLoading, isSelectingRef, debounceLeft, resetTimers>>
  /\ UNCHANGED <<mapVars, pollVars, routeVars>>

\* 100 ms pass: possible while no pending timer is due
Elapse ==
  /\ debounce \/ resetTimers # <<>>
  /\ debounce => debounceLeft > 0
  /\ \A k \in 1 .. Len(resetTimers) : resetTimers[k] > 0
  /\ debounceLeft' = (IF debounce THEN debounceLeft - 1 ELSE debounceLeft)
  /\ resetTimers' = [k \in 1 .. Len(resetTimers) |-> resetTimers[k] - 1]
  /\ UNCHANGED <<searchQuery, debounce, searches, searchResults, stopsFound, controls,
                 searchLoading, showFavorites, isSelectingRef>>
  /\ UNCHANGED <<mapVars, pollVars, routeVars>>

\* the debounce timer fires: searchBusStops(searchQuery) up to its await; in
\* the copy in live-bus-map.tsx it returns at once while isSelectingRef is up
DebounceFires ==
  /\ debounce
  /\ debounceLeft = 0
  /\ (searchQuery # "" /\ ~isSelectingRef) => Len(searches) < MaxSearches
  /\ debounce' = FALSE
  /\ IF isSelectingRef
     THEN UNCHANGED <<searches, searchResults, stopsFound, searchLoading>>
     ELSE IF searchQuery = ""
     THEN /\ searchResults' = <<>>
          /\ stopsFound' = <<>>
          /\ UNCHANGED <<searches, searchLoading>>
     ELSE /\ searches' = Append(searches, searchQuery)
          /\ searchLoading' = TRUE
          /\ UNCHANGED <<searchResults, stopsFound>>
  /\ UNCHANGED <<searchQuery, controls, showFavorites, isSelectingRef, debounceLeft, resetTimers>>
  /\ UNCHANGED <<mapVars, pollVars, routeVars>>

\* the i-th search resolves OK: setSearchResults(stops), onStopsFound(stops)
\* and, in the finally block, setLoading(false)
SearchOk(i) ==
  /\ searches' = Remove(searches, i)
  /\ searchResults' = Matches(searches[i])
  /\ stopsFound' = Matches(searches[i])
  /\ searchLoading' = FALSE
  /\ UNCHANGED <<searchQuery, debounce, controls, showFavorites, isSelectingRef,
                 debounceLeft, resetTimers>>
  /\ UNCHANGED <<mapVars, pollVars, routeVars>>

\* the i-th search fails: the catch block, which in the copy in
\* live-bus-map.tsx does not call onStopsFound
SearchFail(i) ==
  /\ searches' = Remove(searches, i)
  /\ searchResults' = <<>>
  /\ stopsFound' = (IF controls = "live-bus-map" THEN stopsFound ELSE <<>>)
  /\ searchLoading' = FALSE
  /\ UNCHANGED <<searchQuery, debounce, controls, showFavorites, isSelectingRef,
                 debounceLeft, resetTimers>>
  /\ UNCHANGED <<mapVars, pollVars, routeVars>>

\* handleStopSelect(stop) of the search box: the lists close and the query
\* text becomes the stop's name, which re-runs the debounce effect; the copy
\* in live-bus-map.tsx raises isSelectingRef and sets a timer to lower it
\* (onStopSelect itself is the parent's handler, followed in PollSpec)
handleStopSelect(stop) ==
  /\ searchQuery' = CommonName(stop)
  /\ IF searchQuery' # searchQuery
     THEN RestartDebounce
     ELSE UNCHANGED <<debounce, debounceLeft>>
  /\ searchResults' = <<>>
  /\ showFavorites' = FALSE
  /\ IF controls = "live-bus-map"
     THEN /\ Len(resetTimers) < MaxResets
          /\ isSelectingRef' = TRUE
          /\ resetTimers' = Append(resetTimers, ResetDelay)
     ELSE UNCHANGED <<isSelectingRef, resetTimers>>
  /\ UNCHANGED <<searches, stopsFound, controls, searchLoading>>
  /\ UNCHANGED <<mapVars, pollVars, routeVars>>

\* a click on a stop of the results list, which is on show while no search
\* is loading
PickStop ==
  /\ ~searchLoading
  /\ \E k \in 1 .. Len(searchResults) : handleStopSelect(searchResults[k])

\* a click on a stop of the favourites dropdown, which is on show over an
\* empty query
PickFavorite ==
  /\ showFavorites
  /\ searchQuery = ""
  /\ \E k \in 1 .. Len(Favorites) : handleStopSelect(Favorites[k])

\* the oldest reset timer fires: isSelectingRef.current = false
ResetFires ==
  /\ resetTimers # <<>>
  /\ resetTimers[1] = 0
  /\ resetTimers' = Tail(resetTimers)
  /\ isSelectingRef' = FALSE
  /\ UNCHANGED <<searchQuery, debounce, searches, searchResults, stopsFound, controls,
                 searchLoading, showFavorites, debounceLeft>>
  /\ UNCHANGED <<mapVars, pollVars, routeVars>>

\* a mousedown outside the dropdown of the copy in live-bus-map.tsx
ClickOutside ==
  /\ controls = "live-bus-map"
  /\ searchResults # <<>> \/ showFavorites
  /\ searchResults' = <<>>
  /\ showFavorites' = FALSE
  /\ UNCHANGED <<searchQuery, debounce, searches, stopsFound, controls,
                 searchLoading, isSelectingRef, debounceLeft, resetTimers>>
  /\ UNCHANGED <<mapVars, pollVars, routeVars>>

SearchNext ==
  \/ Type
  \/ Focus
  \/ Elapse
  \/ DebounceFires
  \/ \E i \in 1 .. Len(searches) : SearchOk(i)
  \/ \E i \in 1 .. Len(searches) : SearchFail(i)
  \/ PickStop
  \/ PickFavorite
  \/ ResetFires
  \/ ClickOutside

SearchSpec == SearchInit /\ [][SearchNext]_vars

(* ------------------------------ RouteSpec ------------------------------ *)

RouteInit ==
  /\ route \in Routes
  /\ pc = "idle"
  /\ upstream = <<>>
  /\ groupsLeft = 0
  /\ timeoutArmed = FALSE
  /\ response = "none"
  /\ poller = "page" /\ PollIdle
  /\ SearchIdle
  /\ variant = "LiveBusMap"
  /\ selectedStop = NoStop
  /\ userLocation = NoUser
  /\ busStops = <<>>
  /\ center = DefaultCenter
  /\ zoom = DefaultZoom
  /\ dragOffset = Origin
  /\ isDragging = FALSE
  /\ dragStart = Origin
  /\ pointerInside = FALSE
  /\ touches = 0
  /\ gestures = 0

\* the handler returns r; the finally block of the search route clears its
\* timer
Respond(r) ==
  /\ response' = r
  /\ pc' = "done"
  /\ timeoutArmed' = FALSE

\* GET is called: the parameter check, then the first upstream fetch; only
\* the search route arms an abort timer
Invoke ==
  /\ pc = "idle"
  /\ \E valid \in BOOLEAN :
       IF ~valid THEN Respond("400")
       ELSE /\ pc' = (IF route = "search" THEN "search" ELSE "arrivals")
            /\ timeoutArmed' = (route = "search")
            /\ UNCHANGED response
  /\ UNCHANGED <<route, upstream, groupsLeft>>
  /\ UNCHANGED <<mapVars, pollVars, searchVars>>

\* one group fetch is over (expanded or skipped): the next group, or the
\* response
NextGroup ==
  IF groupsLeft > 1
  THEN /\ groupsLeft' = groupsLeft - 1
       /\ UNCHANGED <<pc, timeoutArmed, response>>
  ELSE /\ groupsLeft' = 0
       /\ Respond("matches")

\* the awaited upstream fetch resolves OK and the handler runs to its next
\* await or to its return
UpstreamOk ==
  /\ pc \in {"search", "details", "group", "arrivals"}
  /\ IF route = "search"
     THEN /\ UNCHANGED upstream
          /\ IF pc = "search"
             THEN /\ \E found \in BOOLEAN :
                       IF found
                       THEN pc' = "details" /\ UNCHANGED <<timeoutArmed, response>>
                       ELSE Respond("no-matches")
                  /\ UNCHANGED groupsLeft
             ELSE IF pc = "details"
             THEN \E g \in 0 .. MaxGroups :
                    IF g = 0
                    THEN Respond("matches") /\ UNCHANGED groupsLeft
                    ELSE /\ pc' = "group"
                         /\ groupsLeft' = g
                         /\ UNCHANGED <<timeoutArmed, response>>
             ELSE NextGroup
     ELSE IF route \in {"buslocation", "buslocation2"}
     THEN /\ \E k \in 0 .. BusesToTrack :
               IF k = 0
               THEN Respond("no-buses") /\ UNCHANGED upstream
               ELSE /\ pc' = "vehicles"
                    /\ upstream' = [i \in 1 .. k |-> "pending"]
                    /\ UNCHANGED <<timeoutArmed, response>>
          /\ UNCHANGED groupsLeft
     ELSE /\ Respond("arrivals")
          /\ UNCHANGED <<upstream, groupsLeft>>
  /\ UNCHANGED route
  /\ UNCHANGED <<mapVars, pollVars, searchVars>>

\* the awaited upstream fetch rejects or answers non-OK
UpstreamFail ==
  /\ pc \in {"search", "details", "group", "arrivals"}
  /\ IF route = "search"
     THEN IF pc = "group" THEN NextGroup
          ELSE Respond("soft-failure") /\ UNCHANGED groupsLeft
     ELSE Respond("500") /\ UNCHANGED groupsLeft
  /\ UNCHANGED <<route, upstream>>
  /\ UNCHANGED <<mapVars, pollVars, searchVars>>

\* (await Promise.all(busPromises)).filter(Boolean)
BusLocations == SelectSeq(upstream, LAMBDA b : b # "null")

\* one of the parallel vehicle fetches settles, with a bus or with null;
\* Promise.all resolves when the last one has
VehicleSettles ==
  /\ pc = "vehicles"
  /\ \E i \in 1 .. Len(upstream), rec \in VehicleRecords :
       /\ upstream[i] = "pending"
       /\ upstream' = [upstream EXCEPT ![i] = VehicleResult(route, rec)]
  /\ IF \A j \in 1 .. Len(upstream) : upstream'[j] # "pending"
     THEN Respond("buses")
     ELSE UNCHANGED <<pc, timeoutArmed, response>>
  /\ UNCHANGED <<route, groupsLeft>>
  /\ UNCHANGED <<mapVars, pollVars, searchVars>>

\* the 5 second timer of the search route fires: ac.abort() rejects the
\* pending fetch; a group fetch is skipped by its own catch, and so is every
\* later one, since its signal is already aborted
TimeoutFires ==
  /\ timeoutArmed
  /\ IF pc = "group"
     THEN Respond("matches") /\ groupsLeft' = 0
     ELSE Respond("soft-failure") /\ UNCHANGED groupsLeft
  /\ UNCHANGED <<route, upstream>>
  /\ UNCHANGED <<mapVars, pollVars, searchVars>>

RouteNext ==
  \/ Invoke
  \/ UpstreamOk
  \/ UpstreamFail
  \/ VehicleSettles
  \/ TimeoutFires

RouteSpec == RouteInit /\ [][RouteNext]_vars

\* the runtime calls the handler and fires an armed timer; nothing obliges
\* the upstream service to answer
RouteLive == RouteSpec /\ WF_vars(Invoke) /\ WF_vars(TimeoutFires)

(* ------------------------------ ProjSpec ------------------------------- *)

\* latitudes of the non-polar band, one per degree, off the knots of the
\* Mercator table, and the ends of the band
ProjLats ==
  {Deg(d) + 12345 : d \in -85 .. 84} \cup {-Deg(85), 0, Deg(85)}

ProjLngs == {-Deg(180), -536035, Deg(180) - 1}

\* a BusMap centred on any point of the band, at any zoom, with the pointer
\* over it
ProjInit ==
  /\ variant = "BusMap"
  /\ selectedStop = NoStop
  /\ userLocation = NoUser
  /\ busStops = <<>>
  /\ center \in [lat : ProjLats, lng : ProjLngs]
  /\ zoom \in MinZoomBusMap .. MaxZoom
  /\ dragOffset = Origin
  /\ isDragging = FALSE
  /\ dragStart = Origin
  /\ pointerInside = TRUE
  /\ touches = 0
  /\ gestures = 0
  /\ poller = "LiveBusMap" /\ PollIdle
  /\ SearchIdle
  /\ RouteIdle

\* a press and a release without a move between: handleMouseUp sets the
\* centre to pixelToLatLng(latLngToPixel(center))
ProjNext ==
  \/ MouseDown
  \/ MouseUp

ProjSpec == ProjInit /\ [][ProjNext]_vars

(* ------------------------- claims C1 .. C10 ---------------------------- *)

\* centres that a recentre or a reset sets without any pan
BaseCenters ==
  {DefaultCenter, BoundsCenter(<<"A", "X">>)}
    \cup {StopPos(s) : s \in StopIds} \cup {UserPos(u) : u \in UserIds}

\* a drag has been committed since the last recentre
Panned == center \notin BaseCenters

\* C1: after every update of the map center its latitude lies in
\* [-85, 85] degrees, whatever coordinates the props supply.
C1_LatitudeInBand == -Deg(85) <= center.lat /\ center.lat <= Deg(85)

\* C2: after every update of the map center its longitude lies in
\* (-180, 180] degrees; a drag past the antimeridian wraps.
C2_LongitudeWrapped == -Deg(180) < center.lng /\ center.lng <= Deg(180)

\* C3: zoom stays an integer in [minZoom, 18]; zoomIn adds exactly 1 unless
\* zoom is 18, zoomOut subtracts exactly 1 unless zoom is minZoom, and in
\* those two cases zoom is unchanged.
C3_ZoomClamped ==
  /\ [](zoom \in MinZoom .. MaxZoom)
  /\ [][/\ zoomIn => zoom' = (IF zoom = MaxZoom THEN zoom ELSE zoom + 1)
        /\ zoomOut => zoom' = (IF zoom = MinZoom THEN zoom ELSE zoom - 1)]_vars

C3_Witness == zoom = MinZoom \/ zoom = MaxZoom

\* C4: whenever the controller is Idle, dragOffset is {0,0}.
C4_IdleHasNoOffset == ~isDragging => dragOffset = Origin

C4_Witness == ~isDragging /\ Panned /\ gestures > 0

\* C5: a pointer move while Dragging sets dragOffset to the pointer position
\* minus the position recorded at pointer-down and leaves center and zoom
\* alone; a pointer move while Idle changes no viewport state.
C5_MoveSetsOffsetOnly ==
  [][(MouseMove \/ TouchMove) =>
       IF isDragging
       THEN /\ \E d \in DownPositions, p \in MovePositions :
                 /\ dragStart = d
                 /\ dragOffset' = [x |-> p.x - d.x, y |-> p.y - d.y]
            /\ center' = center
            /\ zoom' = zoom
            /\ isDragging'
       ELSE UNCHANGED <<zoom, center, isDragging, dragStart, dragOffset>>]_vars

C5_Witness == isDragging /\ dragOffset = [x |-> 50, y |-> 30] /\ ~Panned

\* the pointer leaves the map element
LeaveStep == pointerInside /\ ~pointerInside'

\* the mouse button is released over the map during a drag
ReleaseStep == MouseUp /\ isDragging

\* the state a committed drag leaves behind
DragCommitted ==
  /\ ~isDragging'
  /\ dragOffset' = Origin
  /\ center' = (IF isDragging THEN Commit(variant, center, zoom, dragOffset) ELSE center)
  /\ zoom' = zoom
  /\ dragStart' = dragStart

\* C6: a pointer-leave while Dragging yields the successor state of a
\* pointer-up in the same state (drag committed with the last offset,
\* controller Idle, dragOffset {0,0}), so the controller is never Dragging
\* right after the pointer has left.
C6_LeaveCommitsLikeUp == [][(LeaveStep \/ ReleaseStep) => DragCommitted]_vars

C6_Witness == ~pointerInside /\ ~isDragging /\ Panned /\ touches = 0

\* the commit of the gesture pointerDown (100,100), pointerMove (150,130)
GestureCommit ==
  /\ isDragging /\ ~isDragging'
  /\ dragStart = [x |-> 100, y |-> 100]
  /\ dragOffset = [x |-> 50, y |-> 30]

\* longitude of the point drawn sx pixels right of the centre
LngAtScreenX(sx) ==
  center.lng + (IF variant = "BusMap" THEN sx * (Deg(360) \div MapWidth)
                                      ELSE LivePx(sx, zoom))

SameMeridian(a, b) == (a - b) % Deg(360) = 0

\* the centre went to a point drawn above it (screen y < 0), up to the clamp
MovedNorth ==
  \/ center'.lat > center.lat
  \/ variant # "BusMap" /\ center'.lat = Deg(85)

\* C7 as stated: the gesture leaves the centre at the point that was at
\* screen position (50,-30) relative to the original centre.
C7_CenterAtPlus50 ==
  [][GestureCommit =>
       SameMeridian(center'.lng, LngAtScreenX(50)) /\ MovedNorth]_vars

\* C7 amended: the gesture leaves the centre at the point that was at screen
\* position (-50,-30) relative to the original centre: on its meridian and
\* north of the old centre (or on the 85-degree clamp in LiveBusMap and
\* InteractiveMap); every marker keeps, modulo one world width, the screen x
\* it had just before pointer-up, and in BusMap (exact inverse projection)
\* its screen y to within 1/32 pixel.
C7_CenterAtMinus50 ==
  [][GestureCommit =>
       /\ SameMeridian(center'.lng, LngAtScreenX(-50))
       /\ MovedNorth
       /\ \A s \in StopIds :
            /\ SameMeridian(MarkerX(variant, StopLon[s], center', zoom', dragOffset'),
                            MarkerX(variant, StopLon[s], center, zoom, dragOffset))
            /\ variant = "BusMap" =>
                 Abs(BusMarkerY(StopLat[s], center', dragOffset')
                       - BusMarkerY(StopLat[s], center, dragOffset)) <= 2]_vars

C7_Witness ==
  /\ ~isDragging
  /\ center = Commit(variant, StopPos("A"), StopZoom, [x |-> 50, y |-> 30])

\* C8: zoomIn, zoomOut and resetView never change the Idle / Dragging
\* state nor the recorded gesture start, so a drag in progress stays in
\* progress.
C8_ControlsKeepDragState ==
  [][(zoomIn \/ zoomOut \/ resetView) =>
       (isDragging' = isDragging /\ dragStart' = dragStart)]_vars

C8_Witness == isDragging /\ dragOffset # Origin /\ zoom = MaxZoom

\* C9: a touchStart carrying a number of touches other than 1 never takes
\* the controller from Idle to Dragging, and a touchMove carrying a number
\* of touches other than 1 never changes dragOffset or center.
C9_SingleTouchOnly ==
  [][/\ (touches' > touches /\ touches' # 1) => (isDragging' = isDragging)
     /\ (TouchMove /\ touches # 1) => UNCHANGED <<dragOffset, center>>]_vars

C9_Witness == touches = 2 /\ ~isDragging /\ gestures > 0

\* C10: whenever the selected stop changes to a non-null stop, center
\* becomes that stop's position, zoom becomes 16 and dragOffset becomes
\* {0,0}, in every variant and in either controller state.
C10_SelectionRecenters ==
  [][(selectedStop' # selectedStop /\ selectedStop' # NoStop) =>
       /\ center' = StopPos(selectedStop')
       /\ zoom' = StopZoom
       /\ dragOffset' = Origin]_vars

(* ------------------------- claims C11 .. C20 --------------------------- *)

\* C11: resetView, invoked in any state, restores the default center
\* (51.5074, -0.1278) and the default zoom 13 and sets dragOffset to {0,0},
\* in every map variant.
C11_ResetRestoresDefaults ==
  [][resetView =>
       /\ center' = DefaultCenter
       /\ zoom' = DefaultZoom
       /\ dragOffset' = Origin]_vars

\* the centre the fallback policy names for a user location and a stop list
FallbackCenter(usr, stops) ==
  IF usr # NoUser THEN UserPos(usr)
  ELSE IF Len(stops) > 0 THEN BoundsCenter(stops)
  ELSE DefaultCenter

\* C12: each run of the automatic centring step with no selected stop
\* centres on the user location if one is known, else on the midpoint of
\* the bounding box of a non-empty stop list, else on the fixed default.
C12_FallbackCentering ==
  [][(props' # props /\ selectedStop' = NoStop) =>
       center' = FallbackCenter(userLocation', busStops')]_vars

\* C13: every stop marker (the selected stop included) and the user marker
\* is rendered exactly when its screen position lies inside the viewport
\* rectangle expanded by 50 pixels on every side.
C13_CulledAt50 ==
  /\ \A s \in StopsShown :
       StopMarkerRendered(s)
         <=> ~OutsideMargin(variant, StopPos(s), center, zoom, dragOffset, 50)
  /\ (variant = "BusMap" /\ selectedStop # NoStop) =>
       (SelectedMarkerRendered
          <=> ~OutsideMargin(variant, StopPos(selectedStop), center, zoom, dragOffset, 50))
  /\ (variant # "BusMap" /\ userLocation # NoUser) =>
       (UserMarkerRendered
          <=> ~OutsideMargin(variant, UserPos(userLocation), center, zoom, dragOffset, 50))

\* C14: renderTiles visits a grid of exactly (ceil(width/256)+2) by
\* (ceil(height/256)+2) candidate tiles before clipping: 16 for a 512 by
\* 512 viewport.
C14_GridIsTilesXByTilesY ==
  variant # "BusMap" => Cardinality(CandidateTiles) = TilesX * TilesY

C16_StaleResponseDropped ==
  [][\A i \in 1 .. Len(inflight) :
       (/\ ResponseOk(i) \/ ResponseFail(i)
        /\ selectedStop # NoStop
        /\ inflight[i].stop # selectedStop)
         => UNCHANGED <<arrivals, buses>>]_vars

\* C17: a polling component has at most one active interval timer, and it
\* polls the selected stop: every change of the selection and unmount clear
\* the previous timer, so every fetch a tick issues is for the stop selected
\* at that moment.
C17_OneTimer ==
  /\ [](/\ Cardinality(timers) <= 1
        /\ \A t \in timers : mounted /\ t.stop = selectedStop)
  /\ [][Tick => inflight'[Len(inflight')].stop = selectedStop]_vars

\* the selection changed while a timer ran: the first timer is cleared, the
\* second one (for X) is the only one active, and fetches are in flight
C17_Witness ==
  /\ timers = {[id |-> 2, stop |-> "X"]}
  /\ selectedStop = "X"
  /\ inflight # <<>>

\* C18: a search response that arrives after a newer search request was
\* issued is discarded: it overwrites neither searchResults nor the stops
\* reported through onStopsFound.
C18_LastRequestWins ==
  [][\A i \in 1 .. Len(searches) :
       (/\ SearchOk(i) \/ SearchFail(i)
        /\ i < Len(searches))
         => UNCHANGED <<searchResults, stopsFound>>]_vars

\* C19: every invocation of an API route eventually returns a response,
\* even if the upstream service never answers.
C19_RouteAlwaysResponds == (pc # "idle") ~> (pc = "done")

\* C20: when a fetch of the live-bus poller fails, the bus list becomes
\* empty and the interval timer is left active, in every map that polls.
C20_FailedCycleClearsBuses ==
  [][\A i \in 1 .. Len(inflight) :
       (ResponseFail(i) /\ mounted /\ poller # "page")
         => (buses' = NoData /\ timers' = timers)]_vars

(* ------------------------- claims C21 .. C30 --------------------------- *)

\* C21: a vehicle whose upstream record has no lat or no lon is never in
\* the buses list a bus-location route returns.
C21_NoEntityWithoutPosition ==
  response = "buses" =>
    \A i \in 1 .. Len(BusLocations) : BusLocations[i] # "no-position"

\* C25: in the search route, a step in which the abort timer fires, or in
\* which an upstream call fails, ends the request with the soft-failure
\* body (HTTP 200, matches = [], stale = true).
C25_FailureIsSoftFailure ==
  [][(route = "search" /\ (TimeoutFires \/ UpstreamFail))
       => response' = "soft-failure"]_vars

\* C28: in a map with built-in polling (LiveBusMap, LiveBusTracker), the
\* live-bus list is empty whenever no stop is selected.
C28_NoStopNoBuses ==
  (poller # "page" /\ mounted /\ selectedStop = NoStop) => buses = NoData

\* one unit of the Mercator table at the equator, where a unit spans the
\* most latitude (5 degrees over 456 units), and the rounding of one
\* interpolation
RoundTripTol == Deg(5) \div 456 + 2^10

C26_CachedOnlyIfFresh ==
  [][(poller = "page" /\ (SelectStop \/ Refresh))
       => LET s == selectedStop'
              f == inflight'[Len(inflight')]
              e == getItem(cache, s)
              fresh == e # NoEntry /\ now - e.timestamp < 60000
          IN  /\ f.stop = s
              /\ f.background <=> fresh
              /\ fresh => /\ e.key = s
                          /\ e.data = s
                          /\ arrivals' = s
                          /\ lastUpdated' = e.timestamp
              /\ ~fresh => /\ arrivals' = arrivals
                           /\ lastUpdated' = lastUpdated
                           /\ arrivalsLoading']_vars

\* the arrivals of stop A stored at 30 s are on display at 60 s, behind a
\* background refresh
C26_Witness ==
  /\ poller = "page"
  /\ selectedStop = "A"
  /\ now = 2 * PollInterval
  /\ cache = {[key |-> "A", data |-> "A", timestamp |-> PollInterval]}
  /\ arrivals = "A"
  /\ lastUpdated = PollInterval
  /\ inflight = <<[stop |-> "A", background |-> TRUE]>>

\* C27: a background refresh that fails leaves arrivals, lastUpdated and
\* error as they are, and no step of a background refresh (its start, its
\* success, its failure) turns arrivalsLoading on.
C27_BackgroundFailureIsSilent ==
  [][/\ \A i \in 1 .. Len(inflight) :
          (poller = "page" /\ inflight[i].background /\ ResponseFail(i))
            => UNCHANGED <<arrivals, lastUpdated, pollError, arrivalsLoading>>
     /\ \A i \in 1 .. Len(inflight) :
          (poller = "page" /\ inflight[i].background /\ ResponseOk(i))
            => (arrivalsLoading' => arrivalsLoading)
     /\ (poller = "page" /\ (SelectStop \/ Refresh)
           /\ inflight'[Len(inflight')].background)
          => (arrivalsLoading' => arrivalsLoading)]_vars

\* the cached arrivals of A, stored at time 0, are on display 30 s later
\* with no error and no loading flag, while their background refresh and a
\* second one are awaited
C27_Witness ==
  /\ poller = "page"
  /\ selectedStop = "A"
  /\ now = PollInterval
  /\ arrivals = "A"
  /\ lastUpdated = 0
  /\ ~pollError
  /\ ~arrivalsLoading
  /\ inflight = <<[stop |-> "A", background |-> TRUE],
                  [stop |-> "A", background |-> TRUE]>>

\* C22: a failed location attempt (geolocation not offered by the browser,
\* or getCurrentPosition answering with an error) sets the error, leaves
\* locationLoading false, and leaves userLocation, selectedStop, arrivals,
\* the found stops and the nearby stops as they are.
C22_LocationFailureIsNonFatal ==
  [][(mounted /\ (GeoFail \/ (~geoSupported /\ GetCurrentLocation)))
       => /\ pollError'
          /\ ~locationLoading'
          /\ UNCHANGED <<userLocation, selectedStop, arrivals, stopsFound,
                         nearbyStops, busStops>>]_vars

\* a second location attempt has failed while stop A, picked from the
\* nearby stops of the first, is on display with its arrivals
C22_Witness ==
  /\ geoSupported
  /\ locating = 0
  /\ nearby = <<>>
  /\ pollError
  /\ ~locationLoading
  /\ userLocation = "U"
  /\ nearbyStops = NearbyFound
  /\ selectedStop = "A"
  /\ arrivals = "A"
  /\ getItem(cache, "X") = NoEntry
  /\ inflight = <<>>

\* C24: a findNearbyStops call starting while an earlier one is in flight
\* aborts it; a call that is not the latest writes nothing to nearbyStops,
\* showNearbyList, selectedStop, arrivals, error or loading when it settles;
\* and loading is cleared only by the latest call settling unaborted.
C24_OnlyLatestNearbyApplies ==
  [][/\ GeoSuccess
          => \A k \in 1 .. Len(nearby) : nearby'[k].aborted
     /\ \A i \in 1 .. Len(nearby) - 1 :
          (\E out \in {"stops", "empty", "fail", "aborted"} : NearbySettles(i, out))
            => UNCHANGED <<nearbyStops, showNearbyList, selectedStop, arrivals,
                           pollError, loading>>
     /\ (loading /\ ~loading')
          => /\ nearby # <<>>
             /\ ~nearby[Len(nearby)].aborted
             /\ nearby' = SubSeq(nearby, 1, Len(nearby) - 1)]_vars

\* the second of two overlapping calls is still awaited, holding the ref and
\* the loading flag, after the first, aborted, has settled
C24_Witness ==
  /\ mounted
  /\ nearby = <<[id |-> 2, aborted |-> FALSE]>>
  /\ abortControllerRef = 2
  /\ loading
  /\ nearbyStops = <<>>
  /\ ~showNearbyList

\* C29: in the page, showNearbyList never holds together with a selected
\* stop.
C29_ListAndPanelExclusive ==
  poller = "page" => ~(showNearbyList /\ selectedStop # NoStop)

\* the nearby list is showing again, with no stop selected, while the
\* arrivals fetch of an earlier selection and a nearby fetch are still
\* awaited
C29_Witness ==
  /\ poller = "page"
  /\ mounted
  /\ showNearbyList
  /\ selectedStop = NoStop
  /\ nearbyStops = NearbyFound
  /\ inflight # <<>>
  /\ nearby # <<>>

\* C30: in the search box of live-bus-map.tsx, while the query text is the
\* name a pick has put there (the user has not typed since), the debounce
\* timer firing issues no search and leaves the results list closed.
C30_PickIssuesNoSearch ==
  [][(controls = "live-bus-map"
        /\ searchQuery \in {CommonName(st) : st \in StopIds}
        /\ DebounceFires)
       => UNCHANGED <<searches, searchResults, searchLoading>>]_vars

====
